---- MODULE Spec2Model ----
(***************************************************************************)
(* Heuristic malicious-URL detector: src/src/features.py (the scoring      *)
(* core) and src/src/gradio_app.py (the interactive and batch handlers).   *)
(*                                                                         *)
(* A Python str is modelled as a sequence of one-character strings, so     *)
(* that startswith, find, split, lower, "in" and len are computed and not  *)
(* assumed.  A Python call that may raise returns an option: <<>> when it  *)
(* raised, <<v>> when it returned v.                                       *)
(***************************************************************************)
EXTENDS Integers, Sequences, FiniteSets, TLC

VARIABLES
  hashseed,     \* str-hash seed of the running interpreter (fixed per process)
  request,      \* the UI event being served: button click or file upload
  call,         \* the most recent classify_url call of the handler: url, parts, return
  single_out,   \* what predict_single returned to the five output boxes
  file_out,     \* the DataFrame batch_with_download returned
  crashed,      \* the handler let an exception escape
  results_csv   \* results.csv on disk, written by batch_with_download

vars == <<hashseed, request, call, single_out, file_out, crashed, results_csv>>

----------------------------------------------------------------------------
(* Python str and list operations *)

\* a local variable: v is computed once and F names it
With(v, F(_)) == F(v)

\* the least element of a non-empty set of integers
Least(S) == CHOOSE i \in S : \A j \in S : i <= j

\* the greatest element of a non-empty set of integers
Greatest(S) == CHOOSE i \in S : \A j \in S : j <= i

\* s[i:] with a 1-based i
From(s, i) == SubSeq(s, i, Len(s))

\* s[:i] exclusive of the 1-based i
Upto(s, i) == SubSeq(s, 1, i - 1)

\* s.startswith(p)
StartsWith(s, p) == Len(p) <= Len(s) /\ SubSeq(s, 1, Len(p)) = p

\* s.find(c, start) for a one-character c: 1-based index, 0 when absent
Find(s, c, start) ==
  With({i \in start..Len(s) : s[i] = c},
       LAMBDA hits : IF hits = {} THEN 0 ELSE Least(hits))

\* s.rfind(c): 1-based index of the last occurrence, 0 when absent
RFind(s, c) ==
  With({i \in 1..Len(s) : s[i] = c},
       LAMBDA hits : IF hits = {} THEN 0 ELSE Greatest(hits))

\* sub in s
Contains(sub, s) ==
  \E i \in 1..(Len(s) - Len(sub) + 1) : SubSeq(s, i, i + Len(sub) - 1) = sub

\* c in s for a one-character c
HasChar(s, c) == \E i \in 1..Len(s) : s[i] = c

\* s.count(c) for a one-character c
Count(s, c) == Cardinality({i \in 1..Len(s) : s[i] = c})

\* s.split(c) for a one-character c
RECURSIVE Split(_, _)
Split(s, c) ==
  With(Find(s, c, 1),
       LAMBDA i : IF i = 0 THEN <<s>> ELSE <<Upto(s, i)>> \o Split(From(s, i + 1), c))

\* s.rstrip(c) for a one-character c
RECURSIVE RStrip(_, _)
RStrip(s, c) ==
  IF Len(s) > 0 /\ s[Len(s)] = c THEN RStrip(Upto(s, Len(s)), c) ELSE s

\* sep.join(parts), the parts and sep being strings
RECURSIVE Join(_, _)
Join(sep, parts) ==
  IF parts = <<>> THEN <<>>
  ELSE IF Len(parts) = 1 THEN parts[1]
  ELSE parts[1] \o sep \o Join(sep, Tail(parts))

UpperChars == <<"A","B","C","D","E","F","G","H","I","J","K","L","M","N","O","P","Q","R","S","T","U","V","W","X","Y","Z">>
LowerChars == <<"a","b","c","d","e","f","g","h","i","j","k","l","m","n","o","p","q","r","s","t","u","v","w","x","y","z">>
LowerOf == [c \in {UpperChars[i] : i \in 1..26} |->
              LowerChars[CHOOSE i \in 1..26 : UpperChars[i] = c]]

\* s.lower()
Lower(s) == [i \in 1..Len(s) |-> IF s[i] \in DOMAIN LowerOf THEN LowerOf[s[i]] ELSE s[i]] \o <<>>

DigitChars == <<"0","1","2","3","4","5","6","7","8","9">>
IsDigit(c) == \E i \in 1..10 : DigitChars[i] = c
DigitVal(c) == (CHOOSE i \in 1..10 : DigitChars[i] = c) - 1

\* int(s) for a string of digits
RECURSIVE IntOf(_)
IntOf(s) == IF s = <<>> THEN 0 ELSE 10 * IntOf(Upto(s, Len(s))) + DigitVal(s[Len(s)])

\* str(n) for n >= 0
RECURSIVE StrOf(_)
StrOf(n) == IF n < 10 THEN <<DigitChars[n + 1]>> ELSE StrOf(n \div 10) \o <<DigitChars[(n % 10) + 1]>>

----------------------------------------------------------------------------
(* features.py *)

SUSPICIOUS_WORDS == <<
  <<"l","o","g","i","n">>, <<"s","i","g","n","i","n">>, <<"b","a","n","k">>, <<"u","p","d","a","t","e">>, <<"c","o","n","f","i","r","m">>, <<"s","e","c","u","r","e">>, <<"a","c","c","o","u","n","t">>,
  <<"w","e","b","s","c","r">>, <<"e","b","a","y","i","s","a","p","i">>, <<"v","e","r","i","f","y">>, <<"p","a","s","s","w","o","r","d">>, <<"a","u","t","h","e","n","t","i","c","a","t","e">>, <<"p","a","y","p","a","l">> >>

\* a faulty variant of ATTACK_KEYS: the fifth key cut down to "Suspicious"
ATTACK_KEYS_short == <<
  <<"L","o","n","g"," ","U","R","L">>, <<"L","o","n","g"," ","p","a","t","h">>, <<"@">>, <<"H","y","p","h","e","n"," ","i","n"," ","d","o","m","a","i","n">>, <<"S","u","s","p","i","c","i","o","u","s">>,
  <<"I","P"," ","a","d","d","r","e","s","s"," ","u","s","e","d"," ","a","s"," ","h","o","s","t">>, <<"M","a","n","y"," ","s","u","b","d","o","m","a","i","n","s">>, <<"H","i","g","h"," ","c","h","a","r","a","c","t","e","r"," ","e","n","t","r","o","p","y">> >>

\* the keys of ATTACK_MAPPING, in the dict's insertion order
ATTACK_KEYS == <<
  <<"L","o","n","g"," ","U","R","L">>, <<"L","o","n","g"," ","p","a","t","h">>, <<"@">>, <<"H","y","p","h","e","n"," ","i","n"," ","d","o","m","a","i","n">>, <<"S","u","s","p","i","c","i","o","u","s"," ","w","o","r","d">>,
  <<"I","P"," ","a","d","d","r","e","s","s"," ","u","s","e","d"," ","a","s"," ","h","o","s","t">>, <<"M","a","n","y"," ","s","u","b","d","o","m","a","i","n","s">>, <<"H","i","g","h"," ","c","h","a","r","a","c","t","e","r"," ","e","n","t","r","o","p","y">> >>

\* ATTACK_MAPPING[ATTACK_KEYS[k]] = (attack, prevention, layer)
ATTACK_MAPPING == <<
  <<"Phishing / URL spoofing",
    "Avoid clicking suspicious links; verify URL length and domain.",
    "Application Layer">>,
  <<"Path-based attacks",
    "Limit URL length; check for unusual paths.",
    "Application Layer">>,
  <<"Phishing / Credential harvesting",
    "Do not trust URLs with '@'; verify domain.",
    "Application Layer">>,
  <<"Phishing / Brand impersonation",
    "Verify domain spelling; avoid suspicious hyphens.",
    "Application Layer">>,
  <<"Phishing / Credential theft",
    "Do not enter credentials on suspicious sites.",
    "Application Layer">>,
  <<"Direct IP attacks / Malware",
    "Use domain names; avoid direct IP access.",
    "Network Layer">>,
  <<"Subdomain takeover / phishing",
    "Check certificate and domain authenticity.",
    "Application Layer">>,
  <<"Obfuscated URL / Malware",
    "Be cautious with random-looking URLs; scan before visiting.",
    "Application Layer">> >>

\* \d{1,3}
IsOctet(s) == Len(s) \in 1..3 /\ \A i \in 1..Len(s) : IsDigit(s[i])

\* re.match(r'^\d{1,3}(\.\d{1,3}){3}$', s)
IsDottedQuad(s) ==
  With(Split(s, "."),
       LAMBDA groups : Len(groups) = 4 /\ \A i \in 1..4 : IsOctet(groups[i]))

has_ip(host) == IsDottedQuad(Split(host, ":")[1])

\* urllib.parse._splitnetloc(rest, 2): the index in rest, which starts with
\* "//", of the first "/", "?" or "#" after the "//", or one past the end
NetlocEnd(rest) ==
  With({i \in 3..Len(rest) : rest[i] \in {"/", "?", "#"}},
       LAMBDA stops : IF stops = {} THEN Len(rest) + 1 ELSE Least(stops))

\* urllib.parse._splitparams(path)[0]: the path up to the first ";" of its last segment
SplitParams(path) ==
  With(IF HasChar(path, "/") THEN Find(path, ";", RFind(path, "/")) ELSE Find(path, ";", 1),
       LAMBDA i : IF i = 0 THEN path ELSE Upto(path, i))

\* s.split(c, 1)[0] for a one-character c
Before(s, c) == With(Find(s, c, 1), LAMBDA i : IF i = 0 THEN s ELSE Upto(s, i))

\* s.split(c, 1)[1] for a one-character c, empty when c is not in s
After(s, c) == With(Find(s, c, 1), LAMBDA i : IF i = 0 THEN <<>> ELSE From(s, i + 1))

\* urlsplit after the netloc: the fragment goes first, then the query, and
\* urlparse takes the params off the path
SplitTail(netloc, tail) ==
  With(Before(tail, "#"),
       LAMBDA nofrag : [netloc |-> netloc,
                        path   |-> SplitParams(Before(nofrag, "?")),
                        query  |-> After(nofrag, "?")])

\* urlsplit of the text after "<scheme>:", which starts with "//": <<>> when
\* the netloc has one of "[" and "]" without the other (ValueError)
SplitRest(rest, stop) ==
  With(SubSeq(rest, 3, stop - 1),
       LAMBDA netloc : IF HasChar(netloc, "[") # HasChar(netloc, "]")
                       THEN <<>>
                       ELSE <<SplitTail(netloc, From(rest, stop))>>)

\* urllib.parse.urlparse(url) for a url that starts with http:// or https://:
\* <<>> when it raises ValueError("Invalid IPv6 URL"), else <<[netloc, path, query]>>
urlparse(url) ==
  With(From(url, Find(url, ":", 1) + 1),
       LAMBDA rest : SplitRest(rest, NetlocEnd(rest)))

\* the public-suffix rules the extractor knows here (a fragment of the Public
\* Suffix List: com, uk, co.uk), each as its labels from right to left
PUBLIC_SUFFIXES == { <<<<"c","o","m">>>>, <<<<"u","k">>>>, <<<<"u","k">>, <<"c","o">>>> }

\* tldextract's suffix_index: walk the labels from the right along the suffix
\* trie; i is the index (0-based) where the longest known suffix starts
RECURSIVE SuffixWalk(_, _, _, _)
SuffixWalk(labels, j, node, i) ==
  IF j = 0 THEN i
  ELSE With(node \o <<Lower(labels[j])>>,
            LAMBDA next :
              IF \E r \in PUBLIC_SUFFIXES : Len(r) >= Len(next) /\ SubSeq(r, 1, Len(next)) = next
              THEN SuffixWalk(labels, j - 1, next, IF next \in PUBLIC_SUFFIXES THEN j - 1 ELSE i)
              ELSE i)

suffix_index(labels) == SuffixWalk(labels, Len(labels), <<>>, Len(labels))

\* tldextract's looks_like_ip: four decimal octets 0..255 without leading zeros
looks_like_ip(labels) ==
  /\ Len(labels) = 4
  /\ \A i \in 1..4 : /\ IsOctet(labels[i])
                     /\ IntOf(labels[i]) <= 255
                     /\ (Len(labels[i]) > 1 => labels[i][1] # "0")

\* tldextract's lenient_netloc: drop the userinfo, the port and a trailing dot
lenient_netloc(netloc) ==
  RStrip(Before(From(netloc, RFind(netloc, "@") + 1), ":"), ".")

\* the ExtractResult for the labels of a host and their suffix index si
ExtractResult(host, labels, si) ==
  IF si = Len(labels) /\ looks_like_ip(labels)
  THEN [subdomain |-> <<>>, domain |-> host, suffix |-> <<>>]
  ELSE [subdomain |-> IF si >= 2 THEN Join(<<".">>, SubSeq(labels, 1, si - 1)) ELSE <<>>,
        domain    |-> IF si >= 1 THEN labels[si] ELSE <<>>,
        suffix    |-> IF si # Len(labels) THEN Join(<<".">>, SubSeq(labels, si + 1, Len(labels))) ELSE <<>>]

\* tldextract.extract(netloc): subdomain, domain, suffix
tldextract(netloc) ==
  With(lenient_netloc(netloc),
       LAMBDA host : With(Split(host, "."),
                          LAMBDA labels : ExtractResult(host, labels, suffix_index(labels))))

\* a faulty variant of Parts: the whole netloc taken as the domain
Parts_netloc_as_domain(url_to_parse, parsed, ext) ==
  [full      |-> url_to_parse,
   host      |-> parsed.netloc,
   domain    |-> parsed.netloc,
   subdomain |-> ext.subdomain,
   path      |-> parsed.path,
   query     |-> parsed.query]

\* the dict extract_url_parts returns
Parts(url_to_parse, parsed, ext) ==
  [full      |-> url_to_parse,
   host      |-> parsed.netloc,
   domain    |-> ext.domain \o (IF ext.suffix # <<>> THEN <<".">> \o ext.suffix ELSE <<>>),
   subdomain |-> ext.subdomain,
   path      |-> parsed.path,
   query     |-> parsed.query]

\* <<>> when urlparse raises, else <<the dict of parts>>
extract_url_parts(url) ==
  With(IF ~(StartsWith(url, <<"h","t","t","p",":","/","/">>) \/ StartsWith(url, <<"h","t","t","p","s",":","/","/">>))
       THEN <<"h","t","t","p",":","/","/">> \o url
       ELSE url,
       LAMBDA url_to_parse :
         With(urlparse(url_to_parse),
              LAMBDA parsed :
                IF parsed = <<>> THEN <<>>
                ELSE <<Parts(url_to_parse, parsed[1], tldextract(parsed[1].netloc))>>))

\* round(log2(k) * 2^16) for k = 1..256
LOG2_Q16 == <<
  0, 65536, 103872, 131072, 152170, 169408, 183983, 196608,
  207744, 217706, 226717, 234944, 242512, 249519, 256042, 262144,
  267876, 273280, 278392, 283242, 287855, 292253, 296456, 300480,
  304340, 308048, 311616, 315055, 318373, 321578, 324678, 327680,
  330589, 333412, 336153, 338816, 341407, 343928, 346384, 348778,
  351113, 353391, 355616, 357789, 359914, 361992, 364026, 366016,
  367966, 369876, 371748, 373584, 375385, 377152, 378887, 380591,
  382264, 383909, 385525, 387114, 388677, 390214, 391727, 393216,
  394682, 396125, 397547, 398948, 400328, 401689, 403030, 404352,
  405656, 406943, 408212, 409464, 410700, 411920, 413125, 414314,
  415488, 416649, 417795, 418927, 420046, 421152, 422245, 423325,
  424394, 425450, 426495, 427528, 428550, 429562, 430562, 431552,
  432532, 433502, 434462, 435412, 436353, 437284, 438206, 439120,
  440025, 440921, 441809, 442688, 443560, 444423, 445279, 446127,
  446967, 447800, 448626, 449445, 450256, 451061, 451859, 452650,
  453435, 454213, 454985, 455750, 456510, 457263, 458010, 458752,
  459488, 460218, 460942, 461661, 462375, 463083, 463786, 464484,
  465177, 465864, 466547, 467225, 467898, 468566, 469229, 469888,
  470543, 471192, 471838, 472479, 473115, 473748, 474376, 475000,
  475620, 476236, 476848, 477456, 478060, 478661, 479257, 479850,
  480439, 481024, 481606, 482185, 482759, 483331, 483898, 484463,
  485024, 485582, 486136, 486688, 487236, 487781, 488323, 488861,
  489397, 489930, 490459, 490986, 491510, 492031, 492549, 493064,
  493577, 494086, 494593, 495098, 495599, 496098, 496594, 497088,
  497579, 498068, 498554, 499038, 499519, 499998, 500474, 500948,
  501419, 501889, 502355, 502820, 503282, 503742, 504200, 504656,
  505109, 505561, 506010, 506457, 506902, 507345, 507786, 508224,
  508661, 509096, 509528, 509959, 510388, 510815, 511240, 511663,
  512084, 512503, 512921, 513336, 513750, 514162, 514572, 514981,
  515387, 515792, 516195, 516597, 516997, 517395, 517791, 518186,
  518579, 518971, 519361, 519749, 520136, 520521, 520904, 521286,
  521667, 522046, 522423, 522799, 523173, 523546, 523918, 524288 >>

RECURSIVE SumCLogC(_, _)
SumCLogC(s, chars) ==
  IF chars = {} THEN 0
  ELSE With(CHOOSE x \in chars : TRUE,
            LAMBDA c : With(Count(s, c), LAMBDA n : n * LOG2_Q16[n])
                       + SumCLogC(s, chars \ {c}))

\* len(s) * (-sum(probs * log2(probs))) in units of 2^-16 bit, for a non-empty s:
\* -sum (c/n) log2 (c/n) = (n log2 n - sum c log2 c) / n
EntropyTimesLen(s) ==
  Len(s) * LOG2_Q16[Len(s)] - SumCLogC(s, {s[i] : i \in 1..Len(s)})

EntropyThreshold == 4

\* a faulty variant of HighEntropy: the limit at 2.0 bits
HighEntropy_2bits(s) == EntropyTimesLen(s) > 2 * 65536 * Len(s)

\* entropy > 4.0
HighEntropy(s) == EntropyTimesLen(s) > EntropyThreshold * 65536 * Len(s)

LongUrlLen == 75
LongPathLen == 50
ManyDots == 2

R_LONG_URL  == <<"L","o","n","g"," ","U","R","L"," ","(",">","7","5"," ","c","h","a","r","s",")">>
R_LONG_PATH == <<"L","o","n","g"," ","p","a","t","h"," ","(",">","5","0"," ","c","h","a","r","s",")">>
R_AT        == <<"C","o","n","t","a","i","n","s"," ","'","@","'"," ","(","o","f","t","e","n"," ","u","s","e","d"," ","i","n"," ","o","b","f","u","s","c","a","t","i","o","n",")">>
R_HYPHEN    == <<"H","y","p","h","e","n"," ","i","n"," ","d","o","m","a","i","n"," ","(","m","a","y"," ","b","e"," ","s","u","s","p","i","c","i","o","u","s",")">>
R_WORD(w)   == <<"S","u","s","p","i","c","i","o","u","s"," ","w","o","r","d"," ","f","o","u","n","d",":"," ","'">> \o w \o <<"'">>
R_IP        == <<"I","P"," ","a","d","d","r","e","s","s"," ","u","s","e","d"," ","a","s"," ","h","o","s","t">>
R_SUBDOMAIN == <<"M","a","n","y"," ","s","u","b","d","o","m","a","i","n","s">>
R_ENTROPY   == <<"H","i","g","h"," ","c","h","a","r","a","c","t","e","r"," ","e","n","t","r","o","p","y"," ","(","l","o","o","k","s"," ","r","a","n","d","o","m","/","o","b","f","u","s","c","a","t","e","d",")">>

\* a faulty variant of Hit: every rule counts 1
Hit_one(acc, delta, reason) ==
  [score |-> acc.score + 1, reasons |-> Append(acc.reasons, reason)]

\* score += delta; reasons.append(reason)
Hit(acc, delta, reason) ==
  [score |-> acc.score + delta, reasons |-> Append(acc.reasons, reason)]

\* a faulty variant of WordLoop: the break left out
RECURSIVE WordLoop_no_break(_, _, _)
WordLoop_no_break(acc, full, k) ==
  IF k > Len(SUSPICIOUS_WORDS) THEN acc
  ELSE WordLoop_no_break(IF Contains(SUSPICIOUS_WORDS[k], full)
                         THEN [score   |-> acc.score + 2,
                               reasons |-> Append(acc.reasons, R_WORD(SUSPICIOUS_WORDS[k]))]
                         ELSE acc,
                         full, k + 1)

\* for w in SUSPICIOUS_WORDS: if w in full: score += 2; reasons.append(...); break
RECURSIVE WordLoop(_, _, _)
WordLoop(acc, full, k) ==
  IF k > Len(SUSPICIOUS_WORDS) THEN acc
  ELSE IF Contains(SUSPICIOUS_WORDS[k], full)
       THEN Hit(acc, 2, R_WORD(SUSPICIOUS_WORDS[k]))
       ELSE WordLoop(acc, full, k + 1)

\* if fires: score += delta; reasons.append(reason)
When(fires, acc, delta, reason) == IF fires THEN Hit(acc, delta, reason) ELSE acc

\* the body of heuristic_score after extract_url_parts returned parts, full
\* being parts['full'].lower()
ScoreParts(parts, full) ==
  LET host == parts.host
      a0 == [score |-> 0, reasons |-> <<>>]
      a1 == When(Len(full) > LongUrlLen, a0, 1, R_LONG_URL)
      a2 == When(Len(parts.path) > LongPathLen, a1, 1, R_LONG_PATH)
      a3 == When(HasChar(full, "@"), a2, 1, R_AT)
      a4 == When(HasChar(parts.domain, "-"), a3, 1, R_HYPHEN)
      a5 == WordLoop(a4, full, 1)
      a6 == When(has_ip(host), a5, 2, R_IP)
      a7 == When(parts.subdomain # <<>> /\ Count(parts.subdomain, ".") >= ManyDots,
                 a6, 1, R_SUBDOMAIN)
      a8 == When(Len(full) > 0 /\ HighEntropy(full), a7, 1, R_ENTROPY)
  IN  a8

\* <<>> when extract_url_parts raises, else <<[score, reasons]>>
heuristic_score(url) ==
  With(extract_url_parts(url),
       LAMBDA parts : IF parts = <<>> THEN <<>>
                      ELSE <<ScoreParts(parts[1], Lower(parts[1].full))>>)

Threshold == 3

\* the label literals carry a coloured-circle emoji before the word
LABEL_MALICIOUS == <<"(red) Malicious">>
LABEL_SAFE      == <<"(green) safe">>

\* the nested loops over reasons and ATTACK_MAPPING.items(): the keys k, in
\* order of appending, with key.lower() in r.lower()
RECURSIVE MatchKeys(_, _, _)
MatchKeys(reasons, i, k) ==
  IF i > Len(reasons) THEN <<>>
  ELSE IF k > Len(ATTACK_KEYS) THEN MatchKeys(reasons, i + 1, 1)
  ELSE (IF Contains(Lower(ATTACK_KEYS[k]), Lower(reasons[i])) THEN <<k>> ELSE <<>>)
       \o MatchKeys(reasons, i, k + 1)

\* position of a text in the iteration order of a set of str: CPython orders
\* the set by the strings' hashes, which the per-process hash seed decides
SlotOf(seed, text) ==
  LET k == CHOOSE j \in 1..Len(ATTACK_KEYS) : \E f \in 1..3 : ATTACK_MAPPING[j][f] = text
  IN  ((k - 1) * (4 * seed + 1) + 7 * seed) % Len(ATTACK_KEYS)

\* list(set(texts)) under the hash seed
RECURSIVE SortBySlot(_, _)
SortBySlot(seed, items) ==
  IF items = {} THEN <<>>
  ELSE LET first == CHOOSE x \in items : \A y \in items : SlotOf(seed, x) <= SlotOf(seed, y)
       IN  <<first>> \o SortBySlot(seed, items \ {first})

ListOfSet(texts) == SortBySlot(hashseed, {texts[i] : i \in 1..Len(texts)})

\* "; ".join(list(set(texts))) or "N/A"
JoinSet(texts) ==
  With(ListOfSet(texts),
       LAMBDA listed :
         IF listed = <<>> THEN <<"N/A">>
         ELSE Join(<<"; ">>, [i \in 1..Len(listed) |-> <<listed[i]>>]))

\* the three lists classify_url fills, given the matched keys in order
Collected(keys, field) == [i \in 1..Len(keys) |-> ATTACK_MAPPING[keys[i]][field]]

\* a faulty variant of Returned: the label turns malicious above 3 only
Returned_above_threshold(score, reasons, keys) ==
  [label           |-> IF score > Threshold THEN LABEL_MALICIOUS ELSE LABEL_SAFE,
   score           |-> score,
   reasons         |-> reasons,
   attack_types    |-> JoinSet(Collected(keys, 1)),
   prevention_tips |-> JoinSet(Collected(keys, 2)),
   osi_layers      |-> JoinSet(Collected(keys, 3))]

\* a faulty variant of Returned: the reasons passed through a set as well,
\* so that their order follows the hash seed
Returned_reasons_via_set(score, reasons, keys) ==
  [label           |-> IF score >= Threshold THEN LABEL_MALICIOUS ELSE LABEL_SAFE,
   score           |-> score,
   reasons         |-> IF hashseed % 2 = 1
                       THEN [i \in 1..Len(reasons) |-> reasons[Len(reasons) + 1 - i]]
                       ELSE reasons,
   attack_types    |-> JoinSet(Collected(keys, 1)),
   prevention_tips |-> JoinSet(Collected(keys, 2)),
   osi_layers      |-> JoinSet(Collected(keys, 3))]

\* the tuple classify_url returns, given the matched keys
Returned(score, reasons, keys) ==
  [label           |-> IF score >= Threshold THEN LABEL_MALICIOUS ELSE LABEL_SAFE,
   score           |-> score,
   reasons         |-> reasons,
   attack_types    |-> JoinSet(Collected(keys, 1)),
   prevention_tips |-> JoinSet(Collected(keys, 2)),
   osi_layers      |-> JoinSet(Collected(keys, 3))]

\* the body of classify_url after heuristic_score returned (score, reasons)
Verdict(score, reasons) == Returned(score, reasons, MatchKeys(reasons, 1, 1))

\* <<>> when heuristic_score raises, else <<the returned tuple>>
classify_url(url) ==
  With(heuristic_score(url),
       LAMBDA hs : IF hs = <<>> THEN <<>> ELSE <<Verdict(hs[1].score, hs[1].reasons)>>)

----------------------------------------------------------------------------
(* The inputs: URL strings assembled from a scheme, an authority and a rest *)

MaxSeed == 1
MaxRows == 2

Seeds == 0..MaxSeed

\* n times the character c
Rep(c, n) == [i \in 1..n |-> c]

Schemes == { <<>>, <<"h","t","t","p","s",":","/","/">>, <<"H","T","T","P",":","/","/">> }

Authorities == {
  <<>>,
  <<"e","x","a","m","p","l","e",".","c","o","m">>,
  <<"s","e","c","u","r","e","-","l","o","g","i","n",".","e","x","a","m","p","l","e",".","c","o","m">>,
  <<"m","y","-","b","a","n","k",".","c","o",".","u","k">>,
  <<"1","9","2",".","1","6","8",".","1",".","1">>,
  <<"9","9","9",".","9","9","9",".","9","9","9",".","9","9","9",":","8","0","8","0">>,
  <<"a",".","b",".","c",".","d",".","e","x","a","m","p","l","e",".","c","o","m">>,
  <<"u","s","e","r","@","a",".","b",".","e","x","a","m","p","l","e",".","c","o","m",".">>,
  <<"l","o","c","a","l","h","o","s","t",":","8","0">>,
  <<"[">> }

Rests == {
  <<>>,
  <<"/","a","d","m","i","n">>,
  <<"/","v","e","r","i","f","y","?","a","c","c","t","=","1">>,
  <<"/","L","O","G","I","N","#","t","o","p">>,
  <<"/">> \o Rep("a", LongPathLen - 1),
  <<"/">> \o Rep("a", LongPathLen),
  <<"/","s","i","g","n","i","n","/","b","a","n","k","-","u","p","d","a","t","e","/","c","o","n","f","i","r","m","_","s","e","c","u","r","e","/","w","e","b","s","c","r","0","1","2","3","4","5","6","7","8","9","Q","Z","/","e","b","a","y","i","s","a","p","i",".","d","l","l","?","u","=","x","@","y","&","k","=","J","#","v">>,
  <<"/","a",";","b","/","c",";","d","?","e","=","@">> }

Assembled == { s \o a \o r : s \in Schemes, a \in Authorities, r \in Rests }

\* one URL per suspicious word, the scenarios of the specification, a
\* hyphenated domain with no suspicious word, and the two lengths around the
\* long-URL limit
Literal ==
  { <<"e","x","a","m","p","l","e",".","c","o","m","/">> \o SUSPICIOUS_WORDS[k] : k \in 1..Len(SUSPICIOUS_WORDS) }
  \cup { <<"h","t","t","p",":","/","/","e","x","a","m","p","l","e",".","c","o","m">>,
         <<"h","t","t","p",":","/","/","s","e","c","u","r","e","-","l","o","g","i","n",".","e","x","a","m","p","l","e",".","c","o","m","/","v","e","r","i","f","y","?","a","c","c","t","=","1">>,
         <<"h","t","t","p",":","/","/","1","9","2",".","1","6","8",".","1",".","1","/","a","d","m","i","n">>,
         <<"h","t","t","p",":","/","/","a",".","b",".","c",".","d",".","e","x","a","m","p","l","e",".","c","o","m">>,
         <<"e","x","a","m","p","l","e",".","c","o","m","/","l","o","g","i","n">>,
         <<"h","t","t","p",":","/","/","m","y","-","s","i","t","e",".","c","o","m">>,
         <<"h","t","t","p",":","/","/","a",".","c","o",".","u","k","/","?">> \o Rep("b", LongUrlLen - 17),
         <<"h","t","t","p",":","/","/","a",".","c","o",".","u","k","/","?">> \o Rep("b", LongUrlLen - 16) }

Urls == Assembled \cup Literal

\* the first-column cells of the uploaded files
BatchUrls == { <<"1","9","2",".","1","6","8",".","1",".","1">>, <<"m","y","-","b","a","n","k",".","c","o",".","u","k">>, <<"[">> }

RECURSIVE SeqsUpTo(_, _)
SeqsUpTo(S, n) ==
  IF n = 0 THEN {<<>>}
  ELSE SeqsUpTo(S, n - 1) \cup {Append(q, x) : q \in {p \in SeqsUpTo(S, n - 1) : Len(p) = n - 1}, x \in S}

\* an uploaded file: <<>> when pd.read_csv cannot read it, else <<its first column>>
Files == {<<>>} \cup {<<cells>> : cells \in SeqsUpTo(BatchUrls, MaxRows)}

----------------------------------------------------------------------------
(* gradio_app.py *)

\* f"{label} (score={score})"
ResultText(label, score) == label \o <<" (score=">> \o StrOf(score) \o <<")">>

NO_SIGNS == <<"No suspicious signs.">>
NA == <<"N/A">>

\* str(e) of the ValueError urlparse raises
E_PARSE == <<"Invalid IPv6 URL">>
\* str(e) of whatever pd.read_csv raised
E_READ == <<"str(e)">>

\* the tuple predict_single returns, c being what its classify_url call did:
\* the try body, or the except branch when the call raised
SingleOut(c) ==
  IF c = <<>>
  THEN <<<<"ERROR: ">> \o E_PARSE, NA, NA, NA, NA>>
  ELSE <<ResultText(c[1].label, c[1].score),
         IF c[1].reasons # <<>> THEN Join(<<"\n">>, c[1].reasons) ELSE NO_SIGNS,
         c[1].attack_types,
         c[1].prevention_tips,
         c[1].osi_layers>>

\* the list predict_file appends to results for one url, v being the tuple
\* classify_url returned
Row(url, v) ==
  <<url,
    ResultText(v.label, v.score),
    IF v.reasons # <<>> THEN Join(<<"; ">>, v.reasons) ELSE NO_SIGNS,
    v.attack_types,
    v.prevention_tips,
    v.osi_layers>>

\* the loop of predict_file over the cells from index i on: <<>> when a
\* classify_url call raised (nothing catches it), else <<results>>
RECURSIVE Loop(_, _, _)
Loop(cells, i, results) ==
  IF i > Len(cells) THEN <<results>>
  ELSE With(classify_url(cells[i]),
            LAMBDA c : IF c = <<>> THEN <<>>
                       ELSE Loop(cells, i + 1, Append(results, Row(cells[i], c[1]))))

COLUMNS     == <<"URL", "Result", "Reasons", "Attack Types", "Prevention", "Layer">>
COLUMNS_ERR == <<"URL", "Result", "Reasons", "Attack Types", "Prevention", "OSI Layer">>

\* predict_file: <<>> when it raised, else <<the DataFrame>>
predict_file(file_obj) ==
  IF file_obj = <<>>
  THEN <<[columns |-> COLUMNS_ERR,
          rows |-> <<<<<<"ERROR reading file">>, <<>>, <<>>, <<>>, <<>>, E_READ>>>>]>>
  ELSE With(Loop(file_obj[1], 1, <<>>),
            LAMBDA results : IF results = <<>> THEN <<>>
                             ELSE <<[columns |-> COLUMNS, rows |-> results[1]]>>)

\* the url of the last classify_url call predict_file made: <<>> when it made none
LastCalled(file_obj) ==
  IF file_obj = <<>> \/ file_obj[1] = <<>> THEN <<>>
  ELSE With({i \in 1..Len(file_obj[1]) : classify_url(file_obj[1][i]) = <<>>},
            LAMBDA raises : IF raises = {} THEN <<file_obj[1][Len(file_obj[1])]>>
                            ELSE <<file_obj[1][Least(raises)]>>)

\* the record of a classify_url(url) call that did ret: the argument, the
\* parts heuristic_score worked on, and the returned tuple (<<>>: it raised)
CallOf(url, ret) == [url |-> url, parts |-> extract_url_parts(url), ret |-> ret]

NoRequest == [event |-> "none", url |-> <<>>, file |-> <<>>]

\* the handler of the current event has finished
Served == crashed \/ single_out # <<>> \/ file_out # <<>>

Idle == request.event = "none"

Init ==
  /\ hashseed \in Seeds
  /\ request = NoRequest
  /\ call = <<>>
  /\ single_out = <<>>
  /\ file_out = <<>>
  /\ crashed = FALSE
  /\ results_csv = <<>>

\* demo.launch in a new interpreter process: a new hash seed, nothing kept
\* but the files on disk
launch ==
  /\ hashseed' \in Seeds
  /\ request' = NoRequest
  /\ call' = <<>>
  /\ single_out' = <<>>
  /\ file_out' = <<>>
  /\ crashed' = FALSE
  /\ UNCHANGED results_csv

\* btn.click with url in the textbox url_in
btn_click(url) ==
  /\ Idle
  /\ request' = [event |-> "click", url |-> url, file |-> <<>>]
  /\ UNCHANGED <<hashseed, call, single_out, file_out, crashed, results_csv>>

\* file_in.upload with the uploaded file
file_in_upload(file_obj) ==
  /\ Idle
  /\ request' = [event |-> "upload", url |-> <<>>, file |-> file_obj]
  /\ UNCHANGED <<hashseed, call, single_out, file_out, crashed, results_csv>>

\* the handler's return value (or its exception) goes to the browser and the
\* server waits for the next event
respond ==
  /\ Served
  /\ request' = NoRequest
  /\ call' = <<>>
  /\ single_out' = <<>>
  /\ file_out' = <<>>
  /\ crashed' = FALSE
  /\ UNCHANGED <<hashseed, results_csv>>

\* the click handler predict_single(url_in)
predict_single ==
  /\ request.event = "click"
  /\ ~Served
  /\ \E c \in {classify_url(request.url)} :
       /\ call' = <<CallOf(request.url, c)>>
       /\ single_out' = <<SingleOut(c)>>
  /\ UNCHANGED <<hashseed, request, file_out, crashed, results_csv>>

\* the upload handler batch_with_download(file_in): predict_file, then
\* df.to_csv("results.csv") when predict_file returned
batch_with_download ==
  /\ request.event = "upload"
  /\ ~Served
  /\ \E last \in {LastCalled(request.file)} :
       call' = IF last = <<>> THEN <<>> ELSE <<CallOf(last[1], classify_url(last[1]))>>
  /\ \E df \in {predict_file(request.file)} :
       IF df = <<>>
       THEN /\ crashed' = TRUE
            /\ UNCHANGED <<file_out, results_csv>>
       ELSE /\ crashed' = FALSE
            /\ file_out' = df
            /\ results_csv' = df
  /\ UNCHANGED <<hashseed, request, single_out>>

Next ==
  \/ launch
  \/ \E url \in Urls : btn_click(url)
  \/ \E file_obj \in Files : file_in_upload(file_obj)
  \/ predict_single
  \/ batch_with_download
  \/ respond

Spec == Init /\ [][Next]_vars

----------------------------------------------------------------------------
(* Properties.  They read the state the handlers left: call, the record of  *)
(* the handler's last classify_url call, and the tables the handlers wrote. *)
(* The texts and numbers below are those of the specification.              *)

\* the classify_url calls on record (none or one)
CallsMade == {call[i] : i \in 1..Len(call)}

\* the calls on record that returned
CallsReturned == {c \in CallsMade : c.ret # <<>>}

\* the result rows of a DataFrame the batch handler produced
RowsOf(df) == IF df # <<>> /\ df[1].columns = COLUMNS
              THEN {df[1].rows[i] : i \in 1..Len(df[1].rows)} ELSE {}

SPEC_WORDS == <<
  <<"l","o","g","i","n">>, <<"s","i","g","n","i","n">>, <<"b","a","n","k">>, <<"u","p","d","a","t","e">>, <<"c","o","n","f","i","r","m">>, <<"s","e","c","u","r","e">>, <<"a","c","c","o","u","n","t">>,
  <<"w","e","b","s","c","r">>, <<"e","b","a","y","i","s","a","p","i">>, <<"v","e","r","i","f","y">>, <<"p","a","s","s","w","o","r","d">>, <<"a","u","t","h","e","n","t","i","c","a","t","e">>, <<"p","a","y","p","a","l">> >>

\* the reason texts of the rule table, in rule order; the fifth is the
\* prefix of the suspicious-word reason
SPEC_REASONS == <<
  <<"L","o","n","g"," ","U","R","L"," ","(",">","7","5"," ","c","h","a","r","s",")">>,
  <<"L","o","n","g"," ","p","a","t","h"," ","(",">","5","0"," ","c","h","a","r","s",")">>,
  <<"C","o","n","t","a","i","n","s"," ","'","@","'"," ","(","o","f","t","e","n"," ","u","s","e","d"," ","i","n"," ","o","b","f","u","s","c","a","t","i","o","n",")">>,
  <<"H","y","p","h","e","n"," ","i","n"," ","d","o","m","a","i","n"," ","(","m","a","y"," ","b","e"," ","s","u","s","p","i","c","i","o","u","s",")">>,
  <<"S","u","s","p","i","c","i","o","u","s"," ","w","o","r","d"," ","f","o","u","n","d",":"," ","'">>,
  <<"I","P"," ","a","d","d","r","e","s","s"," ","u","s","e","d"," ","a","s"," ","h","o","s","t">>,
  <<"M","a","n","y"," ","s","u","b","d","o","m","a","i","n","s">>,
  <<"H","i","g","h"," ","c","h","a","r","a","c","t","e","r"," ","e","n","t","r","o","p","y"," ","(","l","o","o","k","s"," ","r","a","n","d","o","m","/","o","b","f","u","s","c","a","t","e","d",")">> >>

\* the score deltas of the rule table, in rule order
SPEC_DELTAS == <<1, 1, 1, 1, 2, 2, 1, 1>>

\* the suspicious-word reason for the k-th word
WordReason(k) == SPEC_REASONS[5] \o SPEC_WORDS[k] \o <<"'">>

\* the rule a reason text belongs to, 0 when it is no rule's text
RuleOf(reason) ==
  IF \E k \in 1..Len(SPEC_WORDS) : reason = WordReason(k) THEN 5
  ELSE IF \E n \in {1, 2, 3, 4, 6, 7, 8} : reason = SPEC_REASONS[n]
       THEN CHOOSE n \in {1, 2, 3, 4, 6, 7, 8} : reason = SPEC_REASONS[n]
       ELSE 0

RECURSIVE SumDeltas(_)
SumDeltas(rules) ==
  IF rules = <<>> THEN 0 ELSE SPEC_DELTAS[Head(rules)] + SumDeltas(Tail(rules))

\* the words of the list that occur in the lowercased full URL of a call
WordsIn(c) == {k \in 1..Len(SPEC_WORDS) : Contains(SPEC_WORDS[k], Lower(c.parts[1].full))}

\* the positions of the suspicious-word reasons in a reason list
WordHits(reasons) == {i \in 1..Len(reasons) : StartsWith(reasons[i], SPEC_REASONS[5])}

\* the entries of a "; "-joined string
Entries(joined) == SelectSeq(joined, LAMBDA x : x # "; ")

EntrySet(joined) == {Entries(joined)[i] : i \in 1..Len(Entries(joined))}

\* C1: the label is malicious exactly when the score is >= 3 (2 is safe, 3 is
\* malicious), in the returned tuple and in every Result cell of a batch.
C1_LabelIffScoreAtLeast3 ==
  /\ \A c \in CallsReturned :
       /\ c.ret[1].label \in {LABEL_MALICIOUS, LABEL_SAFE}
       /\ c.ret[1].label = LABEL_MALICIOUS <=> c.ret[1].score >= 3
  /\ \A row \in RowsOf(file_out) :
       \E s \in 0..10 :
         row[2] = ResultText(IF s >= 3 THEN LABEL_MALICIOUS ELSE LABEL_SAFE, s)

\* a batch answered with a score-2 row labelled safe and a score-3 row
\* labelled malicious
C1_Witness ==
  /\ \E row \in RowsOf(file_out) : row[2] = ResultText(LABEL_SAFE, 2)
  /\ \E row \in RowsOf(file_out) : row[2] = ResultText(LABEL_MALICIOUS, 3)
  /\ \E c \in CallsReturned : c.ret[1].score = 3 /\ c.ret[1].label = LABEL_MALICIOUS

\* C2: classify_url raises for no input string: every call on record
\* returned a complete tuple.
C2_ClassifyNeverRaises ==
  \A c \in CallsMade : c.parts # <<>> /\ c.ret # <<>>

\* C3: both wrappers turn a failure of classify_url into an inline error
\* result: the click handler always returns its five outputs, and the batch
\* handler returns a table that has a row for every cell whose
\* classification did not fail.
C3_WrappersCatchFailures ==
  /\ (request.event = "click" /\ Served) => (~crashed /\ single_out # <<>>)
  /\ (request.event = "upload" /\ Served /\ request.file # <<>>) =>
       /\ ~crashed
       /\ \A i \in 1..Len(request.file[1]) :
            classify_url(request.file[1][i]) # <<>> =>
              \E row \in RowsOf(file_out) : row[1] = request.file[1][i]

\* C4: for a readable file with first column u_1..u_n the batch handler
\* returns exactly n rows, the i-th carrying u_i and the verdict of u_i.
C4_OneRowPerUrlInOrder ==
  (request.event = "upload" /\ Served /\ request.file # <<>>) =>
    /\ file_out # <<>>
    /\ Len(file_out[1].rows) = Len(request.file[1])
    /\ \A i \in 1..Len(request.file[1]) :
         /\ file_out[1].rows[i][1] = request.file[1][i]
         /\ classify_url(request.file[1][i]) # <<>>
         /\ file_out[1].rows[i] = Row(request.file[1][i], classify_url(request.file[1][i])[1])

\* C5: the suspicious-word rule fires at most once: no reason when no word
\* of the list is in the lowercased URL, else exactly one reason, naming the
\* first such word in list order, and the rule adds 0 or 2 to the score.
C5_WordRuleFiresOnce ==
  \A c \in CallsReturned :
    LET reasons == c.ret[1].reasons
        hits    == WordHits(reasons)
        others  == SelectSeq([i \in 1..Len(reasons) |-> RuleOf(reasons[i])], LAMBDA n : n # 5)
    IN  /\ Cardinality(hits) <= 1
        /\ hits = {} <=> WordsIn(c) = {}
        /\ \A i \in hits : reasons[i] = WordReason(Least(WordsIn(c)))
        /\ c.ret[1].score - SumDeltas(others) = IF hits = {} THEN 0 ELSE 2

\* a call whose URL holds three or more words of the list, the first in
\* list order (login) standing after another (secure) in the URL
C5_Witness ==
  \E c \in CallsReturned :
    /\ Cardinality(WordsIn(c)) >= 3
    /\ {1, 6} \subseteq WordsIn(c)
    /\ \E i \in 1..Len(c.ret[1].reasons) : c.ret[1].reasons[i] = WordReason(1)

\* the URL of scenario 2
SCENARIO_2 == <<"h","t","t","p",":","/","/","s","e","c","u","r","e","-","l","o","g","i","n",".","e","x","a","m","p","l","e",".","c","o","m","/","v","e","r","i","f","y","?","a","c","c","t","=","1">>

C7_EmptyInputAsStated ==
  \A c \in CallsMade :
    c.url = <<>> =>
      /\ c.parts # <<>> /\ c.ret # <<>>
      /\ c.ret[1].score = 0
      /\ c.ret[1].label = LABEL_SAFE
      /\ c.ret[1].reasons = <<>>
      /\ ~(Len(Lower(c.parts[1].full)) > 0)

\* C7 amended: the empty string gives score 0, safe and no reasons; the
\* string the rules see is the prepended "http://", which is not empty, so
\* the entropy rule is evaluated, and it does not fire because seven
\* characters of five kinds have an entropy below 4.0 bits.
C7_EmptyInput ==
  \A c \in CallsMade :
    c.url = <<>> =>
      /\ c.parts # <<>> /\ c.ret # <<>>
      /\ c.ret[1].score = 0
      /\ c.ret[1].label = LABEL_SAFE
      /\ c.ret[1].reasons = <<>>
      /\ c.parts[1].full = <<"h","t","t","p",":","/","/">>
      /\ Len(Lower(c.parts[1].full)) > 0
      /\ Cardinality({c.parts[1].full[i] : i \in 1..Len(c.parts[1].full)}) = 5

\* the click handler answered the empty string
C7_Witness ==
  /\ request.event = "click" /\ single_out # <<>>
  /\ \E c \in CallsReturned : c.url = <<>>

\* C8 as stated: two classify_url calls on the same URL string give the same
\* tuple in every field, the order inside the joined strings included: the
\* row an earlier call left in results.csv equals the row of the call on
\* record.
C8_SameUrlSameVerdictAsStated ==
  \A c \in CallsReturned :
    \A row \in RowsOf(results_csv) :
      row[1] = c.url => row = Row(c.url, c.ret[1])

\* C8 amended: two calls on the same URL string give the same label, score
\* and reason list and the same entries in each joined string; the order of
\* those entries is the same for calls in one interpreter process (two rows
\* of one batch), and may differ between processes, whose hash seeds differ.
C8_SameUrlSameVerdict ==
  /\ \A r1 \in RowsOf(file_out) :
       \A r2 \in RowsOf(file_out) : r1[1] = r2[1] => r1 = r2
  /\ \A c \in CallsReturned :
       \A row \in RowsOf(results_csv) :
         row[1] = c.url =>
           /\ row[2] = Row(c.url, c.ret[1])[2]
           /\ row[3] = Row(c.url, c.ret[1])[3]
           /\ \A k \in 4..6 :
                /\ EntrySet(row[k]) = EntrySet(Row(c.url, c.ret[1])[k])
                /\ Len(row[k]) = Len(Row(c.url, c.ret[1])[k])

\* a URL classified before and after a restart, the two attack-type strings
\* holding the same entries in a different order
C8_Witness ==
  \E c \in CallsReturned :
    \E row \in RowsOf(results_csv) :
      /\ row[1] = c.url
      /\ row[4] # c.ret[1].attack_types
      /\ EntrySet(row[4]) = EntrySet(c.ret[1].attack_types)

\* C9: the score is the sum of the deltas of the rules whose reasons are in
\* the list; every reason is a rule's text, the rules appear in rule order
\* and at most once; so 0 <= score <= 10, and score = 0 exactly when the
\* list is empty.
C9_ScoreIsSumOfDeltas ==
  \A c \in CallsReturned :
    LET reasons == c.ret[1].reasons
        rules   == [i \in 1..Len(reasons) |-> RuleOf(reasons[i])] \o <<>>
    IN  /\ \A i \in 1..Len(rules) : rules[i] \in 1..8
        /\ \A i \in 1..Len(rules) : \A j \in 1..Len(rules) : i < j => rules[i] < rules[j]
        /\ c.ret[1].score = SumDeltas(rules)
        /\ c.ret[1].score \in 0..10
        /\ c.ret[1].score = 0 <=> reasons = <<>>

\* a call in which seven of the eight rules fired
C9_Witness ==
  \E c \in CallsReturned : Len(c.ret[1].reasons) = 7 /\ c.ret[1].score = 9

\* the 8 keys of the mapping table
SPEC_KEYS == <<
  <<"L","o","n","g"," ","U","R","L">>, <<"L","o","n","g"," ","p","a","t","h">>, <<"@">>, <<"H","y","p","h","e","n"," ","i","n"," ","d","o","m","a","i","n">>, <<"S","u","s","p","i","c","i","o","u","s"," ","w","o","r","d">>,
  <<"I","P"," ","a","d","d","r","e","s","s"," ","u","s","e","d"," ","a","s"," ","h","o","s","t">>, <<"M","a","n","y"," ","s","u","b","d","o","m","a","i","n","s">>, <<"H","i","g","h"," ","c","h","a","r","a","c","t","e","r"," ","e","n","t","r","o","p","y">> >>

SPEC_KEYS_LOWER == [k \in 1..Len(SPEC_KEYS) |-> Lower(SPEC_KEYS[k])]

\* the keys a reason contains, case-insensitively
KeysIn(reason) ==
  With(Lower(reason),
       LAMBDA low : {k \in 1..Len(SPEC_KEYS) : Contains(SPEC_KEYS_LOWER[k], low)})


\* every reason text heuristic_score can append
Emittable ==
  {R_LONG_URL, R_LONG_PATH, R_AT, R_HYPHEN, R_IP, R_SUBDOMAIN, R_ENTROPY}
  \cup {R_WORD(SUSPICIOUS_WORDS[k]) : k \in 1..Len(SUSPICIOUS_WORDS)}

\* the keys each of these reasons contains
KeyTable == [reason \in Emittable |-> KeysIn(reason)]

\* every reason heuristic_score can append contains exactly one key
OneKeyEach == \A reason \in Emittable : Cardinality(KeyTable[reason]) = 1

\* the keys each reason of a list contains
KeysOf(reasons) == [i \in 1..Len(reasons) |-> KeyTable[reasons[i]]] \o <<>>

\* C10: every reason heuristic_score can append contains exactly one of the
\* 8 keys; the attack-types string is "N/A" exactly when there is no reason,
\* and otherwise lists one category per reason, none repeated.
C10_OneCategoryPerReason ==
  /\ OneKeyEach
  /\ \A c \in CallsReturned :
       \A i \in 1..Len(c.ret[1].reasons) : c.ret[1].reasons[i] \in Emittable
  /\ \A c \in CallsReturned :
       With(KeysOf(c.ret[1].reasons),
            LAMBDA keys :
              /\ \A i \in 1..Len(keys) : Cardinality(keys[i]) = 1
              /\ c.ret[1].attack_types = <<"N/A">> <=> keys = <<>>
              /\ keys # <<>> =>
                   /\ Len(Entries(c.ret[1].attack_types)) = Len(keys)
                   /\ Cardinality(EntrySet(c.ret[1].attack_types)) = Len(keys)
                   /\ EntrySet(c.ret[1].attack_types) =
                        {ATTACK_MAPPING[Least(keys[i])][1] : i \in 1..Len(keys)})

\* a call with seven reasons and seven attack categories
C10_Witness ==
  \E c \in CallsReturned :
    /\ Len(c.ret[1].reasons) = 7
    /\ Len(Entries(c.ret[1].attack_types)) = 7
====
